---- MODULE Spec2Model ----
(***************************************************************************)
(* Model of the ESP32 environment monitor (src/IOT/                        *)
(* ESP32_Environment_Monitoring.c) and of its ingestion backend            *)
(* (src/backend/server.js).                                                *)
(*                                                                         *)
(* Device: one action, loop, is one full iteration of loop(): sensor read, *)
(* threshold decisions, pin writes, rate-limited upload, delay.            *)
(* Floats are records [nan, v]: v is the value in whole units, nan the     *)
(* not-a-number flag; every comparison with a NaN is false, as in C.       *)
(* Time is in milliseconds and moves in multiples of TimeStep; the         *)
(* millisecond counter wraps at MillisModulus (2^32 on the hardware,       *)
(* reduced here so that the wrap-around is reached).                       *)
(***************************************************************************)
EXTENDS Integers, Sequences, FiniteSets, TLC

\* ---------------- pins (src lines 18-23) ----------------
FAN_RELAY_PIN == 26
LIGHT_RELAY_PIN == 27
BUZZER_PIN == 25
FAN_LED_PIN == 32
LIGHT_LED_PIN == 33
ALARM_LED_PIN == 14

OutputPins == {FAN_RELAY_PIN, LIGHT_RELAY_PIN, BUZZER_PIN,
               FAN_LED_PIN, LIGHT_LED_PIN, ALARM_LED_PIN}

HIGH == "HIGH"
LOW == "LOW"

\* ---------------- thresholds and timing (src lines 26-31) ----------------
TEMP_HIGH == 30
HUMIDITY_HIGH == 70
LIGHT_LOW == 500
SENSOR_READ_INTERVAL == 2000

\* ---------------- bounds ----------------
\* the millisecond counter wraps after WrapSteps time steps
WrapSteps == 5
\* DATA_SEND_INTERVAL is configured as 1..MaxIntervalSteps time steps, or as
\* one step short of the counter's period
MaxIntervalSteps == 3
\* a tick may take up to MaxLag time steps more than its fixed delay
MaxLag == 1
\* HTTP requests served by the backend
MaxRequests == 3

TimeStep == SENSOR_READ_INTERVAL \div 2
MillisModulus == WrapSteps * TimeStep
SinceCap == MillisModulus
SendIntervals == {k * TimeStep : k \in 1..MaxIntervalSteps} \cup {MillisModulus - TimeStep}
Lags == {k * TimeStep : k \in 0..MaxLag}
\* delay(1000); delay(1000); delay(2000); delay(1000) in setup()
SetupDelay == 1000 + 1000 + 2000 + 1000

\* ---------------- floats ----------------
Float(x) == [nan |-> FALSE, v |-> x]
NaN == [nan |-> TRUE, v |-> 0]
isnan(f) == f.nan
\* C comparisons of a float with a constant: false when the float is NaN
Geq(f, c) == (~f.nan) /\ f.v >= c
Lt(f, c) == (~f.nan) /\ f.v < c

\* sensor values around each threshold, and the DHT22's read failure
Temperatures == {Float(TEMP_HIGH - 1), Float(TEMP_HIGH), Float(TEMP_HIGH + 1), NaN}
Humidities == {Float(HUMIDITY_HIGH - 1), Float(HUMIDITY_HIGH), NaN}
LightLevels == {LIGHT_LOW - 1, LIGHT_LOW}

VARIABLES
  pins,               \* electrical level of each output pin
  reapplied,          \* the last tick wrote the levels the pins already had
  writes,             \* digitalWrite calls per pin during the last tick (setup at Init)
  log,                \* Serial/LCD/network events of the last tick, in order
  temperature, humidity, lightLevel,   \* loop() locals of the last tick
  tickState,          \* "BOOT" after setup, then "ACTIVE" / "ERROR"
  sendOutcome,        \* "Sent", "Failed", "Skipped" or "None" (invalid tick / boot)
  record,             \* arguments of sendDataToServer on the last tick, or NoRecord
  currentTime,        \* millis() at the tick's rate-limit test
  lastSendTime,       \* global upload cursor
  millisCounter,      \* hardware millisecond counter at the end of the tick
  DATA_SEND_INTERVAL, \* configured upload interval
  sinceAttempt,       \* real ms since the last send attempt (-1: none yet), saturating
  attemptGap          \* on an attempt tick: real ms since the previous attempt, else -1

devVars == <<pins, reapplied, writes, log, temperature, humidity, lightLevel,
             tickState, sendOutcome, record, currentTime, lastSendTime,
             millisCounter, DATA_SEND_INTERVAL, sinceAttempt, attemptGap>>

VARIABLES
  rows,               \* content of the "data" table of the external store
  requests,           \* HTTP requests handled so far
  response,           \* what the last request's caller received
  lastInfo,           \* the object handed to insert() by the last POST, or NoInfo
  assigned,           \* the v4() id and the timestamp the server made for the last POST
  request             \* route of the last request and outcome of its call to the store

srvVars == <<rows, requests, response, lastInfo, assigned, request>>
vars == <<devVars, srvVars>>

NoRecord == [sent |-> FALSE]

\* ---------------- hardware: hw = [pins, writes, log] ----------------
digitalWrite(hw, pin, level) ==
  [hw EXCEPT !.pins[pin] = level, !.writes[pin] = @ + 1]

SerialPrint(hw, line) == [hw EXCEPT !.log = Append(@, line)]

OnOff(state) == IF state THEN "ON" ELSE "OFF"

setFanLED(hw, state) == digitalWrite(hw, FAN_LED_PIN, IF state THEN HIGH ELSE LOW)
setLightLED(hw, state) == digitalWrite(hw, LIGHT_LED_PIN, IF state THEN HIGH ELSE LOW)
setAlarmLED(hw, state) == digitalWrite(hw, ALARM_LED_PIN, IF state THEN HIGH ELSE LOW)

\* controlFan that drives the relay and forgets the indicator
controlFan_noLED(hw, state) ==
  SerialPrint(digitalWrite(hw, FAN_RELAY_PIN, IF state THEN LOW ELSE HIGH),
              <<"FAN", OnOff(state)>>)

controlFan(hw, state) ==
  SerialPrint(setFanLED(digitalWrite(hw, FAN_RELAY_PIN, IF state THEN LOW ELSE HIGH), state),
              <<"FAN", OnOff(state)>>)

\* controlLight that drives the relay as active-high
controlLight_activeHigh(hw, state) ==
  SerialPrint(setLightLED(digitalWrite(hw, LIGHT_RELAY_PIN, IF state THEN HIGH ELSE LOW), state),
              <<"LIGHT", OnOff(state)>>)

controlLight(hw, state) ==
  SerialPrint(setLightLED(digitalWrite(hw, LIGHT_RELAY_PIN, IF state THEN LOW ELSE HIGH), state),
              <<"LIGHT", OnOff(state)>>)

\* controlBuzzer that flips the buzzer line on every "on" call
controlBuzzer_toggle(hw, state) ==
  SerialPrint(setAlarmLED(digitalWrite(hw, BUZZER_PIN,
                 IF state THEN (IF hw.pins[BUZZER_PIN] = HIGH THEN LOW ELSE HIGH) ELSE LOW), state),
              <<"BUZZER", OnOff(state)>>)

controlBuzzer(hw, state) ==
  SerialPrint(setAlarmLED(digitalWrite(hw, BUZZER_PIN, IF state THEN HIGH ELSE LOW), state),
              <<"BUZZER", OnOff(state)>>)

\* ---------------- sensors ----------------
\* readDHT22 that fails only when both values are NaN
readDHT22_bothNaN(t, h) == ~(isnan(h) /\ isnan(t))

\* readDHT22 that tests the humidity only
readDHT22_humidityOnly(t, h) == ~isnan(h)

readDHT22(t, h) == ~(isnan(h) \/ isnan(t))

\* ---------------- setup() ----------------
SetupPins ==
  [p \in OutputPins |->
     IF p \in {FAN_RELAY_PIN, LIGHT_RELAY_PIN} THEN HIGH ELSE LOW]

NoWrites == [p \in OutputPins |-> 0]

DeviceInit ==
  /\ pins = SetupPins
  /\ reapplied = FALSE
  /\ writes = [p \in OutputPins |-> 1]
  /\ log = <<>>
  /\ temperature = Float(0)
  /\ humidity = Float(0)
  /\ lightLevel = 0
  /\ tickState = "BOOT"
  /\ sendOutcome = "None"
  /\ record = NoRecord
  /\ currentTime = 0
  /\ lastSendTime = 0
  /\ millisCounter \in {(SetupDelay + lag) % MillisModulus : lag \in Lags}
  /\ DATA_SEND_INTERVAL \in SendIntervals
  /\ sinceAttempt = -1
  /\ attemptGap = -1

\* ---------------- loop(): control logic ----------------
\* c = [hw, fanStatus, fanLedStatus, lightStatus, lightLedStatus,
\*      alarmLedStatus, buzzerStatus]: the hardware and the loop() locals
LoopLocals(hw) ==
  [hw |-> hw, fanStatus |-> FALSE, fanLedStatus |-> FALSE,
   lightStatus |-> FALSE, lightLedStatus |-> FALSE,
   alarmLedStatus |-> FALSE, buzzerStatus |-> FALSE]

\* fan control with a dead band: off only below TEMP_HIGH - 1
FanControl_hysteresis(c, t) ==
  IF Geq(t, TEMP_HIGH)
  THEN [c EXCEPT !.hw = controlFan(@, TRUE), !.fanStatus = TRUE, !.fanLedStatus = TRUE]
  ELSE IF Lt(t, TEMP_HIGH - 1)
       THEN [c EXCEPT !.hw = controlFan(@, FALSE), !.fanStatus = FALSE, !.fanLedStatus = FALSE]
       ELSE c

FanControl(c, t) ==
  IF Geq(t, TEMP_HIGH)
  THEN [c EXCEPT !.hw = controlFan(@, TRUE), !.fanStatus = TRUE, !.fanLedStatus = TRUE]
  ELSE IF Lt(t, TEMP_HIGH)
       THEN [c EXCEPT !.hw = controlFan(@, FALSE), !.fanStatus = FALSE, !.fanLedStatus = FALSE]
       ELSE c

\* light control with <= in place of <
LightControl_leq(c, l) ==
  IF l <= LIGHT_LOW
  THEN [c EXCEPT !.hw = controlLight(@, TRUE), !.lightStatus = TRUE, !.lightLedStatus = TRUE]
  ELSE [c EXCEPT !.hw = controlLight(@, FALSE), !.lightStatus = FALSE, !.lightLedStatus = FALSE]

LightControl(c, l) ==
  IF l < LIGHT_LOW
  THEN [c EXCEPT !.hw = controlLight(@, TRUE), !.lightStatus = TRUE, !.lightLedStatus = TRUE]
  ELSE [c EXCEPT !.hw = controlLight(@, FALSE), !.lightStatus = FALSE, !.lightLedStatus = FALSE]

\* alarm control that ignores the light level
AlarmControl_noLight(c, t, h, l) ==
  IF Geq(t, TEMP_HIGH) \/ Geq(h, HUMIDITY_HIGH)
  THEN [c EXCEPT !.hw = controlBuzzer(@, TRUE), !.buzzerStatus = TRUE, !.alarmLedStatus = TRUE]
  ELSE [c EXCEPT !.hw = controlBuzzer(@, FALSE), !.buzzerStatus = FALSE, !.alarmLedStatus = FALSE]

\* alarm control with > in place of >= on the humidity
AlarmControl_gt(c, t, h, l) ==
  IF (Geq(t, TEMP_HIGH) \/ Geq(h, HUMIDITY_HIGH + 1)) /\ l < LIGHT_LOW
  THEN [c EXCEPT !.hw = controlBuzzer(@, TRUE), !.buzzerStatus = TRUE, !.alarmLedStatus = TRUE]
  ELSE [c EXCEPT !.hw = controlBuzzer(@, FALSE), !.buzzerStatus = FALSE, !.alarmLedStatus = FALSE]

AlarmControl(c, t, h, l) ==
  IF (Geq(t, TEMP_HIGH) \/ Geq(h, HUMIDITY_HIGH)) /\ l < LIGHT_LOW
  THEN [c EXCEPT !.hw = controlBuzzer(@, TRUE), !.buzzerStatus = TRUE, !.alarmLedStatus = TRUE]
  ELSE [c EXCEPT !.hw = controlBuzzer(@, FALSE), !.buzzerStatus = FALSE, !.alarmLedStatus = FALSE]

displayOnLCD(hw, t, h, l) == SerialPrint(hw, <<"LCD", "reading">>)

\* unsigned subtraction of the two counters, then the comparison of line 279
\* rate-limit test against the sensor interval instead of the send interval
IntervalElapsed_readInterval(cur, last, interval) ==
  (cur - last) % MillisModulus >= SENSOR_READ_INTERVAL

\* rate-limit test with > in place of >=
IntervalElapsed_gt(cur, last, interval) ==
  (cur - last) % MillisModulus > interval

\* rate-limit test on the plain difference, without the unsigned wrap-around
IntervalElapsed_noWrap(cur, last, interval) ==
  cur - last >= interval

IntervalElapsed(cur, last, interval) ==
  (cur - last) % MillisModulus >= interval

\* cursor update that is skipped when the upload failed
AdvanceCursor_onSuccess(cur, last, sendSuccess) ==
  IF sendSuccess THEN cur ELSE last

\* lastSendTime = currentTime, line 305, after either outcome
AdvanceCursor(cur, last, sendSuccess) == cur

\* arguments of sendDataToServer with fan and light status exchanged
SendArgs_swapped(c, t, h, l) ==
  [sent |-> TRUE, temperature |-> t, humidity |-> h, light_intensity |-> l,
   fan |-> c.lightStatus, fan_led |-> c.fanLedStatus,
   light |-> c.fanStatus, light_led |-> c.lightLedStatus,
   alarm_led |-> c.alarmLedStatus, buzzer |-> c.buzzerStatus]

\* arguments of sendDataToServer, lines 281-291
SendArgs(c, t, h, l) ==
  [sent |-> TRUE, temperature |-> t, humidity |-> h, light_intensity |-> l,
   fan |-> c.fanStatus, fan_led |-> c.fanLedStatus,
   light |-> c.lightStatus, light_led |-> c.lightLedStatus,
   alarm_led |-> c.alarmLedStatus, buzzer |-> c.buzzerStatus]

\* real time since the last attempt, once lag more milliseconds have passed
Elapsed(since, lag) ==
  IF since = -1 THEN -1
  ELSE IF since + lag > SinceCap THEN SinceCap ELSE since + lag

\* valid branch that shows the reading only after the actuators are applied
ActiveBranch_displayLast(t, h, l, cur, sendSuccess, since) ==
  LET c0 == LoopLocals([pins |-> pins, writes |-> NoWrites, log |-> <<>>])
      c1 == FanControl(c0, t)
      c2 == LightControl(c1, l)
      c30 == AlarmControl(c2, t, h, l)
      c3 == [c30 EXCEPT !.hw = displayOnLCD(@, t, h, l)]
  IN /\ tickState' = "ACTIVE"
     /\ lightLevel' = l
     /\ pins' = c3.hw.pins
     /\ reapplied' = (c3.hw.pins = pins)
     /\ writes' = c3.hw.writes
     /\ IF IntervalElapsed(cur, lastSendTime, DATA_SEND_INTERVAL)
        THEN /\ record' = SendArgs(c3, t, h, l)
             /\ sendOutcome' = IF sendSuccess THEN "Sent" ELSE "Failed"
             /\ log' = c3.hw.log \o <<<<"SEND", "attempt">>,
                                      <<"LCD", IF sendSuccess THEN "*" ELSE "X">>>>
             /\ lastSendTime' = AdvanceCursor(cur, lastSendTime, sendSuccess)
             /\ attemptGap' = since
             /\ sinceAttempt' = Elapsed(0, SENSOR_READ_INTERVAL)
        ELSE /\ record' = NoRecord
             /\ sendOutcome' = "Skipped"
             /\ log' = c3.hw.log
             /\ lastSendTime' = lastSendTime
             /\ attemptGap' = -1
             /\ sinceAttempt' = Elapsed(since, SENSOR_READ_INTERVAL)

\* the if (sensorSuccess) branch, lines 211-307; sendSuccess is the result of
\* sendDataToServer
ActiveBranch(t, h, l, cur, sendSuccess, since) ==
  LET c0 == LoopLocals(displayOnLCD([pins |-> pins, writes |-> NoWrites, log |-> <<>>], t, h, l))
      c1 == FanControl(c0, t)
      c2 == LightControl(c1, l)
      c3 == AlarmControl(c2, t, h, l)
  IN /\ tickState' = "ACTIVE"
     /\ lightLevel' = l
     /\ pins' = c3.hw.pins
     /\ reapplied' = (c3.hw.pins = pins)
     /\ writes' = c3.hw.writes
     /\ IF IntervalElapsed(cur, lastSendTime, DATA_SEND_INTERVAL)
        THEN /\ record' = SendArgs(c3, t, h, l)
             /\ sendOutcome' = IF sendSuccess THEN "Sent" ELSE "Failed"
             /\ log' = c3.hw.log \o <<<<"SEND", "attempt">>,
                                      <<"LCD", IF sendSuccess THEN "*" ELSE "X">>>>
             /\ lastSendTime' = AdvanceCursor(cur, lastSendTime, sendSuccess)
             /\ attemptGap' = since
             /\ sinceAttempt' = Elapsed(0, SENSOR_READ_INTERVAL)
        ELSE /\ record' = NoRecord
             /\ sendOutcome' = "Skipped"
             /\ log' = c3.hw.log
             /\ lastSendTime' = lastSendTime
             /\ attemptGap' = -1
             /\ sinceAttempt' = Elapsed(since, SENSOR_READ_INTERVAL)

\* else branch that switches every output off
ErrorBranch_allOff(since) ==
  /\ tickState' = "ERROR"
  /\ lightLevel' = 0
  /\ pins' = SetupPins
  /\ reapplied' = FALSE
  /\ writes' = [p \in OutputPins |-> 1]
  /\ log' = <<<<"SERIAL", "Sensor read failed">>>>
  /\ record' = NoRecord
  /\ sendOutcome' = "None"
  /\ lastSendTime' = lastSendTime
  /\ attemptGap' = -1
  /\ sinceAttempt' = Elapsed(since, SENSOR_READ_INTERVAL)

\* else branch that also moves the upload cursor
ErrorBranch_touchCursor(since) ==
  /\ tickState' = "ERROR"
  /\ lightLevel' = 0
  /\ pins' = pins
  /\ reapplied' = FALSE
  /\ writes' = NoWrites
  /\ log' = <<<<"SERIAL", "Sensor read failed">>>>
  /\ record' = NoRecord
  /\ sendOutcome' = "None"
  /\ lastSendTime' = millisCounter
  /\ attemptGap' = -1
  /\ sinceAttempt' = Elapsed(since, SENSOR_READ_INTERVAL)

\* the else branch, lines 308-319
ErrorBranch(since) ==
  /\ tickState' = "ERROR"
  /\ lightLevel' = 0
  /\ pins' = pins
  /\ reapplied' = FALSE
  /\ writes' = NoWrites
  /\ log' = <<<<"SERIAL", "ERROR: Failed to read from DHT22 sensor!">>,
              <<"SERIAL", "Sensor read failed">>, <<"LCD", "Sensor Error!">>>>
  /\ record' = NoRecord
  /\ sendOutcome' = "None"
  /\ lastSendTime' = lastSendTime
  /\ attemptGap' = -1
  /\ sinceAttempt' = Elapsed(since, SENSOR_READ_INTERVAL)

\* loop() that stops for good once a sensor read has failed
loop_haltOnError ==
  \E t \in Temperatures, h \in Humidities, lag \in Lags :
    LET cur == (millisCounter + lag) % MillisModulus
        since == Elapsed(sinceAttempt, lag)
    IN /\ tickState # "ERROR"
       /\ temperature' = t
       /\ humidity' = h
       /\ currentTime' = cur
       /\ millisCounter' = (cur + SENSOR_READ_INTERVAL) % MillisModulus
       /\ DATA_SEND_INTERVAL' = DATA_SEND_INTERVAL
       /\ UNCHANGED srvVars
       /\ IF readDHT22(t, h)
          THEN \E l \in LightLevels, sendSuccess \in BOOLEAN :
                 ActiveBranch(t, h, l, cur, sendSuccess, since)
          ELSE ErrorBranch(since)

\* one iteration of loop(), its trailing delay(SENSOR_READ_INTERVAL) included.
\* lag is the time the iteration takes beyond the fixed delay; the light level
\* is read, and sendDataToServer can be called, only after a valid DHT22 read.
loop ==
  \E t \in Temperatures, h \in Humidities, lag \in Lags :
    LET cur == (millisCounter + lag) % MillisModulus
        since == Elapsed(sinceAttempt, lag)
    IN /\ temperature' = t
       /\ humidity' = h
       /\ currentTime' = cur
       /\ millisCounter' = (cur + SENSOR_READ_INTERVAL) % MillisModulus
       /\ DATA_SEND_INTERVAL' = DATA_SEND_INTERVAL
       /\ UNCHANGED srvVars
       /\ IF readDHT22(t, h)
          THEN \E l \in LightLevels, sendSuccess \in BOOLEAN :
                 ActiveBranch(t, h, l, cur, sendSuccess, since)
          ELSE ErrorBranch(since)

\* ---------------- backend (server.js) ----------------
NoInfo == [none |-> TRUE]
NoResponse == [status |-> 0, json |-> FALSE, keys |-> {}]

\* request bodies: the device's fields, with or without an "id" and a
\* "created_at" of the client's own
ClientId == <<"client", "id">>
ClientTime == <<"client", "time">>
Payloads == {[temperature |-> TEMP_HIGH + 1, buzzer |-> TRUE],
             [temperature |-> TEMP_HIGH - 1, buzzer |-> FALSE]}
Bodies ==
  UNION {{p, [id |-> ClientId] @@ p, [created_at |-> ClientTime] @@ p,
          [id |-> ClientId, created_at |-> ClientTime] @@ p} : p \in Payloads}

v4(n) == <<"uuid", n>>
NewDate(n) == <<"iso", n>>

\* { id: v4(), ...req.body, created_at: new Date().toISOString() }:
\* a later key of an object literal replaces an earlier one
MakeInfo(body, uuid, date) ==
  [created_at |-> date] @@ body @@ [id |-> uuid]

JsonOk == [status |-> 200, json |-> TRUE, keys |-> {"success", "message", "data"}]
JsonError == [status |-> 500, json |-> TRUE, keys |-> {"error"}]

ServerInit ==
  /\ rows = {}
  /\ requests = 0
  /\ response = NoResponse
  /\ lastInfo = NoInfo
  /\ assigned = NoInfo
  /\ request = [route |-> "none", store |-> "unused"]

\* app.post("/sensor-data"); insertOk is the outcome of the store's insert
PostSensorData ==
  \E body \in Bodies, insertOk \in BOOLEAN :
    LET uuid == v4(requests + 1)
        date == NewDate(requests + 1)
        info == MakeInfo(body, uuid, date)
    IN /\ requests < MaxRequests
       /\ requests' = requests + 1
       /\ lastInfo' = info
       /\ assigned' = [id |-> uuid, created_at |-> date]
       /\ request' = [route |-> "POST /sensor-data",
                      store |-> IF insertOk THEN "ok" ELSE "failed"]
       /\ IF insertOk
          THEN /\ rows' = rows \cup {info}
               /\ response' = JsonOk
          ELSE /\ rows' = rows
               /\ response' = JsonError
       /\ UNCHANGED devVars

\* app.get("/data"); queryOk is the outcome of the store's select. The catch
\* block binds `error` and reads `err`, which is not defined: the handler
\* throws inside catch and res.status(500).json is never reached. The caller
\* then gets what the framework does with a rejected async handler: no
\* response at all, or the default non-JSON 500 page.
GetData ==
  \E queryOk \in BOOLEAN, framework5 \in BOOLEAN :
    /\ requests < MaxRequests
    /\ requests' = requests + 1
    /\ lastInfo' = NoInfo
    /\ assigned' = NoInfo
    /\ rows' = rows
    /\ request' = [route |-> "GET /data", store |-> IF queryOk THEN "ok" ELSE "failed"]
    /\ response' = IF queryOk THEN JsonOk
                   ELSE IF framework5 THEN [status |-> 500, json |-> FALSE, keys |-> {}]
                        ELSE NoResponse
    /\ UNCHANGED devVars

\* app.get("/test")
GetTest ==
  /\ requests < MaxRequests
  /\ requests' = requests + 1
  /\ lastInfo' = NoInfo
  /\ assigned' = NoInfo
  /\ rows' = rows
  /\ request' = [route |-> "GET /test", store |-> "unused"]
  /\ response' = [status |-> 200, json |-> TRUE, keys |-> {"message"}]
  /\ UNCHANGED devVars

Init == DeviceInit /\ ServerInit

Next == loop

ServerNext == PostSensorData \/ GetData \/ GetTest

Spec == Init /\ [][Next]_vars

\* the backend on its own: HTTP requests in any order
ServerSpec == Init /\ [][ServerNext]_vars

\* loop() is called again by the runtime as soon as it returns
FairSpec == Spec /\ WF_vars(loop)

\* ---------------- logical state of the outputs ----------------
FanOn == pins[FAN_RELAY_PIN] = LOW
FanLedOn == pins[FAN_LED_PIN] = HIGH
LightOn == pins[LIGHT_RELAY_PIN] = LOW
LightLedOn == pins[LIGHT_LED_PIN] = HIGH
BuzzerOn == pins[BUZZER_PIN] = HIGH
AlarmLedOn == pins[ALARM_LED_PIN] = HIGH
Attempted == sendOutcome \in {"Sent", "Failed"}

TypeOK ==
  /\ pins \in [OutputPins -> {HIGH, LOW}]
  /\ tickState \in {"BOOT", "ACTIVE", "ERROR"}
  /\ sendOutcome \in {"Sent", "Failed", "Skipped", "None"}
  /\ lastSendTime \in 0..(MillisModulus - 1)
  /\ millisCounter \in 0..(MillisModulus - 1)

\* ======================= claims =======================

\* C1: after a tick with a valid sensor read, buzzer and alarm indicator are
\* both ON iff (temperature >= TEMP_HIGH or humidity >= HUMIDITY_HIGH) and
\* lightLevel < LIGHT_LOW, and both OFF otherwise.
AlarmCondition ==
  (temperature.v >= TEMP_HIGH \/ humidity.v >= HUMIDITY_HIGH) /\ lightLevel < LIGHT_LOW
C1_AlarmIff ==
  tickState = "ACTIVE" =>
    /\ AlarmCondition => (BuzzerOn /\ AlarmLedOn)
    /\ ~AlarmCondition => (~BuzzerOn /\ ~AlarmLedOn)
C1_Witness ==
  /\ tickState = "ACTIVE"
  /\ temperature.v < TEMP_HIGH /\ humidity.v = HUMIDITY_HIGH /\ lightLevel = LIGHT_LOW - 1
  /\ BuzzerOn /\ AlarmLedOn

\* C2: after a tick with a valid sensor read, fan and fan indicator are both
\* ON when temperature >= TEMP_HIGH and both OFF when it is below, and the fan
\* relay and its LED were each written exactly once on that tick.
C2_FanRule ==
  tickState = "ACTIVE" =>
    /\ temperature.v >= TEMP_HIGH => (FanOn /\ FanLedOn)
    /\ temperature.v < TEMP_HIGH => (~FanOn /\ ~FanLedOn)
    /\ writes[FAN_RELAY_PIN] = 1 /\ writes[FAN_LED_PIN] = 1
C2_Witness ==
  /\ tickState = "ACTIVE" /\ temperature.v = TEMP_HIGH
  /\ FanOn /\ FanLedOn /\ writes[FAN_RELAY_PIN] = 1

\* C3: after a tick with a valid sensor read, light and light indicator are
\* both ON if lightLevel < LIGHT_LOW and both OFF otherwise (equality included).
C3_LightRule ==
  tickState = "ACTIVE" =>
    IF lightLevel < LIGHT_LOW THEN LightOn /\ LightLedOn ELSE ~LightOn /\ ~LightLedOn
C3_Witness ==
  tickState = "ACTIVE" /\ lightLevel = LIGHT_LOW /\ ~LightOn /\ ~LightLedOn /\ reapplied

\* C4: a tick whose sensor read is invalid writes none of the six outputs;
\* each keeps the level it had before the tick.
C4_InvalidTickKeepsOutputs ==
  [][tickState' = "ERROR" =>
       /\ pins' = pins
       /\ \A p \in OutputPins : writes'[p] = 0]_vars
C4_Witness ==
  tickState = "ERROR" /\ FanOn /\ LightOn /\ BuzzerOn /\ sinceAttempt = SinceCap

\* C5: two consecutive send attempts, successful or not, are at least
\* DATA_SEND_INTERVAL apart, and no attempt is made on an invalid tick.
C5_RateLimit ==
  /\ (Attempted /\ attemptGap # -1) => attemptGap >= DATA_SEND_INTERVAL
  /\ tickState = "ERROR" => (sendOutcome = "None" /\ record = NoRecord)
  /\ Attempted => tickState = "ACTIVE"
C5_Witness ==
  /\ Attempted /\ attemptGap # -1 /\ attemptGap < SinceCap
  /\ DATA_SEND_INTERVAL > SENSOR_READ_INTERVAL
  /\ currentTime < DATA_SEND_INTERVAL

\* C6: a send attempt leaves lastSendTime at that attempt's `now` whether it
\* was Sent or Failed; after a Failed attempt the next attempt comes no sooner
\* than DATA_SEND_INTERVAL later and carries the reading of its own tick.
C6_CursorAdvancesOnFailure ==
  [][/\ sendOutcome' \in {"Sent", "Failed"} => lastSendTime' = currentTime'
     /\ (sendOutcome = "Failed" /\ sendOutcome' \in {"Sent", "Failed"}) =>
          /\ attemptGap' >= DATA_SEND_INTERVAL
          /\ record'.temperature = temperature'
          /\ record'.humidity = humidity'
          /\ record'.light_intensity = lightLevel']_vars
C6_Witness ==
  /\ sendOutcome = "Failed" /\ lastSendTime = currentTime
  /\ attemptGap # -1 /\ DATA_SEND_INTERVAL > SENSOR_READ_INTERVAL

\* C7: the loop never halts: whatever the outcome of a tick, another tick
\* always eventually runs.
C7_LoopNeverHalts == []<><<loop>>_vars
C7_Witness ==
  tickState = "ERROR" /\ sinceAttempt = SinceCap /\ lastSendTime > millisCounter

\* C8: at every tick boundary from the end of setup on, the fan indicator
\* shows the state of the fan and the light indicator the state of the light.
C8_IndicatorsFollow ==
  /\ FanOn <=> FanLedOn
  /\ LightOn <=> LightLedOn
C8_Witness ==
  tickState = "ERROR" /\ FanOn /\ FanLedOn /\ ~LightOn /\ ~LightLedOn

\* C9: controlFan, controlLight and controlBuzzer are idempotent on the
\* outputs: a second call with the same boolean leaves every pin as the first
\* call did, and only repeats the log line.
Twice(hw1, hw2, line) ==
  /\ hw2.pins = hw1.pins
  /\ hw2.log = Append(hw1.log, line)
C9_ControlIdempotent ==
  \A state \in BOOLEAN :
    LET hw == [pins |-> pins, writes |-> NoWrites, log |-> <<>>]
    IN /\ Twice(controlFan(hw, state), controlFan(controlFan(hw, state), state),
                <<"FAN", OnOff(state)>>)
       /\ Twice(controlLight(hw, state), controlLight(controlLight(hw, state), state),
                <<"LIGHT", OnOff(state)>>)
       /\ Twice(controlBuzzer(hw, state), controlBuzzer(controlBuzzer(hw, state), state),
                <<"BUZZER", OnOff(state)>>)
C9_Witness ==
  tickState = "ACTIVE" /\ reapplied /\ BuzzerOn /\ FanOn /\ LightOn

\* C10: the id and the creation timestamp of the row a POST /sensor-data
\* stores are the ones the server assigned, whatever the body carries.
C10_ServerAssignsIdAndTime ==
  (response = JsonOk /\ "id" \in DOMAIN lastInfo) =>
    /\ lastInfo \in rows
    /\ lastInfo.id = assigned.id
    /\ lastInfo.created_at = assigned.created_at

\* C11: every failure of the data store, on insert and on query alike, reaches
\* the HTTP caller as a status-500 JSON object with an error message, and
\* every success as a JSON object indicating success.
C11_StoreFailureIs500Json ==
  /\ request.store = "failed" =>
       (response.status = 500 /\ response.json /\ "error" \in response.keys)
  /\ request.store = "ok" =>
       (response.status = 200 /\ response.json /\ "success" \in response.keys)

\* positions in the tick's event log (0: the event did not happen)
Pos(ev) ==
  IF \E i \in 1..Len(log) : log[i] = ev
  THEN CHOOSE i \in 1..Len(log) : log[i] = ev
  ELSE 0
DisplayPos == Pos(<<"LCD", "reading">>)
SendPos == Pos(<<"SEND", "attempt">>)
ActuatorPos == {i \in 1..Len(log) : log[i][1] \in {"FAN", "LIGHT", "BUZZER"}}

\* C12 as stated: on a valid tick the reading is displayed after the actuators
\* have been decided and applied, and before any send attempt.
C12_DisplayAfterActuators ==
  tickState = "ACTIVE" =>
    /\ DisplayPos > 0
    /\ \A i \in ActuatorPos : i < DisplayPos
    /\ SendPos > 0 => DisplayPos < SendPos

\* C12 amended: on a valid tick the reading is displayed first, then fan,
\* light and alarm are decided and applied in that order, then any send
\* attempt is made.
C12_DisplayThenActuatorsThenSend ==
  tickState = "ACTIVE" =>
    /\ DisplayPos = 1
    /\ ActuatorPos = {2, 3, 4}
    /\ log[2][1] = "FAN" /\ log[3][1] = "LIGHT" /\ log[4][1] = "BUZZER"
    /\ Attempted <=> SendPos > 0
    /\ SendPos > 0 => SendPos = 5
C12_Witness ==
  tickState = "ACTIVE" /\ sendOutcome = "Sent" /\ DisplayPos = 1 /\ SendPos = 5

\* the unsigned difference now - lastSendTime that the coming tick tests
DiffAtTest == (currentTime' - lastSendTime) % MillisModulus

\* C13: lastSendTime changes only on a tick that made a send attempt: a valid
\* tick with now - lastSendTime < DATA_SEND_INTERVAL does no network I/O and
\* keeps lastSendTime, and so does an invalid tick.
C13_CursorOnlyOnAttempt ==
  [][/\ lastSendTime' # lastSendTime => sendOutcome' \in {"Sent", "Failed"}
     /\ (tickState' = "ACTIVE" /\ DiffAtTest < DATA_SEND_INTERVAL) =>
          /\ lastSendTime' = lastSendTime
          /\ sendOutcome' = "Skipped"
          /\ record' = NoRecord
          /\ \A i \in 1..Len(log') : log'[i][1] # "SEND"
     /\ tickState' = "ERROR" =>
          /\ lastSendTime' = lastSendTime
          /\ \A i \in 1..Len(log') : log'[i][1] # "SEND"]_vars
C13_Witness ==
  /\ tickState = "ERROR" /\ lastSendTime > 0 /\ lastSendTime # currentTime
  /\ sinceAttempt > SENSOR_READ_INTERVAL + SENSOR_READ_INTERVAL

\* a tick with a valid read on which now - lastSendTime >= DATA_SEND_INTERVAL
DueTick ==
  loop /\ tickState' = "ACTIVE" /\ DiffAtTest >= DATA_SEND_INTERVAL
SendCount(lg) == Cardinality({i \in 1..Len(lg) : lg[i][1] = "SEND"})
ExactlyOneAttemptWhenDue ==
  [][(tickState' = "ACTIVE" /\ DiffAtTest >= DATA_SEND_INTERVAL) =>
       /\ sendOutcome' \in {"Sent", "Failed"}
       /\ SendCount(log') = 1
       /\ record'.sent]_vars

\* C14 as stated: exactly one send attempt on every valid tick on which
\* now - lastSendTime >= DATA_SEND_INTERVAL; hence, if valid ticks keep
\* occurring, a send attempt always eventually happens.
C14_ValidTicksGiveAttempts ==
  /\ ExactlyOneAttemptWhenDue
  /\ []<>(tickState = "ACTIVE") => []<>Attempted

\* C14 amended: exactly one send attempt on every valid tick on which
\* now - lastSendTime >= DATA_SEND_INTERVAL; hence, if such ticks keep
\* occurring, a send attempt always eventually happens.
C14_DueTicksGiveAttempts ==
  /\ ExactlyOneAttemptWhenDue
  /\ []<><<DueTick>>_vars => []<>Attempted
C14_Witness ==
  /\ Attempted /\ attemptGap = DATA_SEND_INTERVAL
  /\ DATA_SEND_INTERVAL > SENSOR_READ_INTERVAL /\ SendCount(log) = 1

\* C15: a reading is invalid iff humidity or temperature is not-a-number; on
\* an invalid reading the light level is not sampled (it keeps its initial 0),
\* no output is written and no upload is attempted.
C15_InvalidIffNaN ==
  /\ tickState = "ERROR" <=>
       (tickState # "BOOT" /\ (humidity.nan \/ temperature.nan))
  /\ tickState = "ACTIVE" => lightLevel \in LightLevels
  /\ tickState = "ERROR" =>
       /\ lightLevel = 0
       /\ \A p \in OutputPins : writes[p] = 0
       /\ ActuatorPos = {}
       /\ SendPos = 0 /\ record = NoRecord /\ sendOutcome = "None"
C15_Witness ==
  /\ tickState = "ERROR" /\ temperature.nan /\ ~humidity.nan
  /\ lightLevel = 0 /\ LightOn

\* the six pin levels as a function of a reading alone
DecidePins(t, h, l) ==
  [p \in OutputPins |->
     IF p = FAN_RELAY_PIN THEN (IF t >= TEMP_HIGH THEN LOW ELSE HIGH)
     ELSE IF p = FAN_LED_PIN THEN (IF t >= TEMP_HIGH THEN HIGH ELSE LOW)
     ELSE IF p = LIGHT_RELAY_PIN THEN (IF l < LIGHT_LOW THEN LOW ELSE HIGH)
     ELSE IF p = LIGHT_LED_PIN THEN (IF l < LIGHT_LOW THEN HIGH ELSE LOW)
     ELSE IF (t >= TEMP_HIGH \/ h >= HUMIDITY_HIGH) /\ l < LIGHT_LOW THEN HIGH ELSE LOW]

\* C16: the tick is memoryless: ACTIVE or ERROR, and the six outputs after a
\* valid tick, are a function of that tick's reading alone, whatever came
\* before; a temperature alternating between TEMP_HIGH and a value below it
\* on consecutive valid ticks switches the fan on every tick.
C16_Memoryless ==
  [][/\ tickState' = (IF humidity'.nan \/ temperature'.nan THEN "ERROR" ELSE "ACTIVE")
     /\ tickState' = "ACTIVE" =>
          pins' = DecidePins(temperature'.v, humidity'.v, lightLevel')
     /\ (tickState = "ACTIVE" /\ tickState' = "ACTIVE"
          /\ temperature.v = TEMP_HIGH /\ temperature'.v < TEMP_HIGH) =>
          (FanOn /\ ~FanOn')
     /\ (tickState = "ACTIVE" /\ tickState' = "ACTIVE"
          /\ temperature.v < TEMP_HIGH /\ temperature'.v = TEMP_HIGH) =>
          (~FanOn /\ FanOn')]_vars
C16_Witness ==
  /\ tickState = "ACTIVE" /\ temperature.v = TEMP_HIGH - 1 /\ ~FanOn
  /\ ~reapplied /\ sendOutcome = "Skipped" /\ lightLevel = LIGHT_LOW /\ humidity.v = HUMIDITY_HIGH

\* the boolean a control function was called with on the last tick, as its
\* log line reports it
CalledOn(name) == \E i \in 1..Len(log) : log[i] = <<name, "ON">>
CalledOff(name) == \E i \in 1..Len(log) : log[i] = <<name, "OFF">>

\* C17: the relay lines of fan and light are LOW exactly when their boolean
\* is true and HIGH when it is false; the buzzer line and the three LEDs are
\* HIGH exactly when their boolean is true; setup leaves every output at its
\* OFF level (relays HIGH, buzzer and LEDs LOW).
C17_Polarity ==
  /\ tickState = "BOOT" =>
       /\ pins[FAN_RELAY_PIN] = HIGH /\ pins[LIGHT_RELAY_PIN] = HIGH
       /\ pins[BUZZER_PIN] = LOW /\ pins[FAN_LED_PIN] = LOW
       /\ pins[LIGHT_LED_PIN] = LOW /\ pins[ALARM_LED_PIN] = LOW
  /\ tickState = "ACTIVE" =>
       /\ CalledOn("FAN") # CalledOff("FAN")
       /\ CalledOn("LIGHT") # CalledOff("LIGHT")
       /\ CalledOn("BUZZER") # CalledOff("BUZZER")
       /\ pins[FAN_RELAY_PIN] = (IF CalledOn("FAN") THEN LOW ELSE HIGH)
       /\ pins[FAN_LED_PIN] = (IF CalledOn("FAN") THEN HIGH ELSE LOW)
       /\ pins[LIGHT_RELAY_PIN] = (IF CalledOn("LIGHT") THEN LOW ELSE HIGH)
       /\ pins[LIGHT_LED_PIN] = (IF CalledOn("LIGHT") THEN HIGH ELSE LOW)
       /\ pins[BUZZER_PIN] = (IF CalledOn("BUZZER") THEN HIGH ELSE LOW)
       /\ pins[ALARM_LED_PIN] = (IF CalledOn("BUZZER") THEN HIGH ELSE LOW)
C17_Witness ==
  /\ tickState = "ACTIVE" /\ CalledOn("LIGHT") /\ CalledOff("FAN") /\ CalledOn("BUZZER")
  /\ pins[LIGHT_RELAY_PIN] = LOW /\ pins[FAN_RELAY_PIN] = HIGH /\ pins[BUZZER_PIN] = HIGH

\* C18: every transmitted record carries the reading of the tick that sends
\* it and actuator flags equal to the logical state of the outputs applied on
\* that tick.
C18_RecordIsCurrent ==
  record.sent =>
    /\ tickState = "ACTIVE" /\ Attempted
    /\ record.temperature = temperature
    /\ record.humidity = humidity
    /\ record.light_intensity = lightLevel
    /\ record.fan = FanOn /\ record.fan_led = FanLedOn
    /\ record.light = LightOn /\ record.light_led = LightLedOn
    /\ record.buzzer = BuzzerOn /\ record.alarm_led = AlarmLedOn
    /\ \A p \in OutputPins : writes[p] = 1
C18_Witness ==
  /\ record.sent /\ record.fan /\ ~record.light /\ ~record.buzzer
  /\ ~reapplied /\ attemptGap > SENSOR_READ_INTERVAL

\* C19: at every tick boundary, also during runs of invalid ticks, the alarm
\* (buzzer or alarm indicator) being ON implies the light being ON.
C19_AlarmImpliesLight ==
  (BuzzerOn \/ AlarmLedOn) => (LightOn /\ LightLedOn)
C19_Witness ==
  tickState = "ERROR" /\ BuzzerOn /\ AlarmLedOn /\ LightOn /\ ~FanOn

\* the longest time between two consecutive ticks
MaxTickGap == SENSOR_READ_INTERVAL + MaxLag * TimeStep
NeverEarly ==
  (Attempted /\ attemptGap # -1) => attemptGap >= DATA_SEND_INTERVAL
\* a valid tick is not skipped once the interval has really elapsed, as long
\* as less than one counter period has passed since the last attempt
NoLateSkip ==
  (sendOutcome = "Skipped" /\ sinceAttempt # -1 /\ sinceAttempt < SinceCap) =>
    sinceAttempt - SENSOR_READ_INTERVAL < DATA_SEND_INTERVAL

\* C20 as stated: with DATA_SEND_INTERVAL below the counter's period and
\* ticks less than one period apart, the unsigned test never lets a send
\* through earlier than DATA_SEND_INTERVAL after the previous attempt and
\* never blocks sends for good: with valid ticks, attempts keep happening.
C20_WrapNeverBlocks ==
  /\ []NeverEarly
  /\ <>[](tickState = "ACTIVE") => []<>Attempted

\* C20 amended: the same, provided consecutive ticks are at most
\* (counter period - DATA_SEND_INTERVAL) apart; and within one period of the
\* last attempt the test agrees with the real elapsed time.
C20_WrapSafeTest ==
  /\ []NeverEarly
  /\ []NoLateSkip
  /\ (DATA_SEND_INTERVAL + MaxTickGap <= MillisModulus /\ <>[](tickState = "ACTIVE"))
       => []<>Attempted
C20_Witness ==
  /\ Attempted /\ attemptGap # -1 /\ attemptGap < SinceCap
  /\ currentTime < attemptGap
  /\ DATA_SEND_INTERVAL + MaxTickGap <= MillisModulus
====
